---- MODULE Spec2Model ----
(***************************************************************************)
(* Model of the image cropper (src/src/main.rs): the crop session held by  *)
(* ImageCropper and the frame handler ImageCropper::update.                *)
(*                                                                         *)
(* Numbers.  The program computes in f32.  The model computes the same     *)
(* expressions in exact rational arithmetic: a number is a pair <<n, d>>   *)
(* with d > 0 and gcd(n, d) = 1.  Rounding error of f32 is therefore not   *)
(* modelled; everything else (order of operations, comparisons, casts) is  *)
(* as in the source.                                                       *)
(*                                                                         *)
(* Coordinates.  Screen positions are taken relative to image_rect.min     *)
(* (main.rs:445), so image_rect = [0, display_size].                       *)
(***************************************************************************)
EXTENDS Integers, Sequences, FiniteSets, TLC

VARIABLES
    image,              \* Option<DynamicImage>: None or <<width, height>>
    texture,            \* Option<TextureHandle>: None or the texture's size
    crop_rect,          \* Option<Rect>: None or Some([min |-> [x, y], max |-> [x, y]])
    selected_handle,    \* Option<ResizeHandle>: NoHandle or a handle
    aspect_ratio_mode,  \* AspectRatioMode
    custom_w,           \* u32
    custom_h,           \* u32
    is_portrait,        \* bool
    dragging,           \* the widget response: a drag is in progress
    cropped,            \* the window <<x, y, width, height>> handed to crop_imm, or None
    last,               \* the frame just handled: what it did, to what, on what input
    steps               \* crop-rectangle mutations so far (bounds the model)

vars == <<image, texture, crop_rect, selected_handle, aspect_ratio_mode,
          custom_w, custom_h, is_portrait, dragging, cropped, last, steps>>

(***************************************************************************)
(* Bound: how many crop-rectangle mutations (drag frames, applications of  *)
(* an aspect ratio) a run of the model holds.                              *)
(***************************************************************************)
MaxSteps == 2

----------------------------------------------------------------------------
(* Exact rational arithmetic standing in for f32.                          *)

Abs(n) == IF n < 0 THEN -n ELSE n

RECURSIVE GCD(_, _)
GCD(a, b) == IF b = 0 THEN a ELSE GCD(b, a % b)

\* the rational n/d (d > 0) in lowest terms
R(n, d) == LET g == GCD(Abs(n), d) IN <<n \div g, d \div g>>

RInt(n) == <<n, 1>>
Zero == RInt(0)
One == RInt(1)
Half == R(1, 2)

RNeg(a) == <<-a[1], a[2]>>

RAdd(a, b) ==
    LET g == GCD(a[2], b[2])
    IN  R(a[1] * (b[2] \div g) + b[1] * (a[2] \div g), (a[2] \div g) * b[2])

RSub(a, b) == RAdd(a, RNeg(b))

RMul(a, b) ==
    LET g1 == GCD(Abs(a[1]), b[2])
        g2 == GCD(Abs(b[1]), a[2])
    IN  <<(a[1] \div g1) * (b[1] \div g2), (a[2] \div g2) * (b[2] \div g1)>>

\* b # 0
RDiv(a, b) ==
    RMul(a, IF b[1] > 0 THEN <<b[2], b[1]>> ELSE <<-b[2], -b[1]>>)

RLt(a, b) ==
    LET g == GCD(a[2], b[2])
    IN  a[1] * (b[2] \div g) < b[1] * (a[2] \div g)

RLe(a, b) == ~RLt(b, a)
RGt(a, b) == RLt(b, a)
RGe(a, b) == ~RLt(a, b)

RMax(a, b) == IF RLt(a, b) THEN b ELSE a      \* f32::max
RMin(a, b) == IF RLt(b, a) THEN b ELSE a      \* f32::min
RAbs(a) == <<Abs(a[1]), a[2]>>                \* f32::abs

\* `as u32` of a non-negative f32: the integer part
Trunc(a) == a[1] \div a[2]

----------------------------------------------------------------------------
(* egui::Pos2 / Vec2 / Rect, as the source uses them.                      *)

Vec(x, y) == [x |-> x, y |-> y]
Rect(mn, mx) == [min |-> mn, max |-> mx]

VAdd(p, v) == Vec(RAdd(p.x, v.x), RAdd(p.y, v.y))
VSub(p, v) == Vec(RSub(p.x, v.x), RSub(p.y, v.y))

RectWidth(r) == RSub(r.max.x, r.min.x)
RectHeight(r) == RSub(r.max.y, r.min.y)
RectCenter(r) ==
    Vec(RMul(RAdd(r.min.x, r.max.x), Half), RMul(RAdd(r.min.y, r.max.y), Half))
RectTranslate(r, v) == Rect(VAdd(r.min, v), VAdd(r.max, v))
RectFromCenterSize(c, size) ==
    LET h == Vec(RMul(size.x, Half), RMul(size.y, Half))
    IN  Rect(VSub(c, h), VAdd(c, h))
RectContains(r, p) ==
    /\ RLe(r.min.x, p.x) /\ RLe(p.x, r.max.x)
    /\ RLe(r.min.y, p.y) /\ RLe(p.y, r.max.y)

\* Pos2::clamp(ZERO, (1, 1))
Clamp01(a) == RMin(RMax(a, Zero), One)
PosClamp01(p) == Vec(Clamp01(p.x), Clamp01(p.y))

FullRect == Rect(Vec(Zero, Zero), Vec(One, One))

----------------------------------------------------------------------------
(* enum ResizeHandle, enum AspectRatioMode.                                *)

\* Option<T>: None is the empty tuple; Some(v) wraps a record in a 1-tuple, and
\* a value that is itself a non-empty tuple (a size, a ratio) stands for itself
None == <<>>
Some(v) == <<v>>
NoHandle == "None"

Corners == {"TopLeft", "TopRight", "BottomLeft", "BottomRight"}
Handles == Corners \cup {"Top", "Bottom", "Left", "Right", "Center"}

Landscape == {"R3_2", "R4_3", "R16_9", "R16_10"}
Portrait == {"R2_3", "R3_4", "R9_16", "R10_16"}
Modes == {"Free", "Original", "Square", "Custom"} \cup Landscape \cup Portrait

\* counterpart with the 16:10 entry repeating the 16:9 one
counterpart_slip(m) ==
    CASE m = "R3_2" -> "R2_3"
      [] m = "R4_3" -> "R3_4"
      [] m = "R16_9" -> "R9_16"
      [] m = "R16_10" -> "R9_16"
      [] m = "R2_3" -> "R3_2"
      [] m = "R3_4" -> "R4_3"
      [] m = "R9_16" -> "R16_9"
      [] m = "R10_16" -> "R16_10"
      [] OTHER -> m

counterpart(m) ==
    CASE m = "R3_2" -> "R2_3"
      [] m = "R4_3" -> "R3_4"
      [] m = "R16_9" -> "R9_16"
      [] m = "R16_10" -> "R10_16"
      [] m = "R2_3" -> "R3_2"
      [] m = "R3_4" -> "R4_3"
      [] m = "R9_16" -> "R16_9"
      [] m = "R10_16" -> "R16_10"
      [] OTHER -> m

\* the `target_ratio` match of apply_aspect_ratio; image_size is a Vec
TargetRatio(mode, image_size, cw, ch) ==
    CASE mode = "Free" -> None
      [] mode = "Original" -> RDiv(image_size.x, image_size.y)
      [] mode = "Square" -> One
      [] mode = "R3_2" -> R(3, 2)
      [] mode = "R4_3" -> R(4, 3)
      [] mode = "R16_9" -> R(16, 9)
      [] mode = "R16_10" -> R(16, 10)
      [] mode = "R2_3" -> R(2, 3)
      [] mode = "R3_4" -> R(3, 4)
      [] mode = "R9_16" -> R(9, 16)
      [] mode = "R10_16" -> R(10, 16)
      [] mode = "Custom" -> R(cw, ch)

\* NormAspect without the conversion: the pixel ratio used as it is
NormAspectUnconverted(ratio, image_size) == ratio

\* norm_aspect = ratio * (image_size.y / image_size.x)
NormAspect(ratio, image_size) == RMul(ratio, RDiv(image_size.y, image_size.x))

ImageSize(img) == Vec(RInt(img[1]), RInt(img[2]))

----------------------------------------------------------------------------
(* ImageCropper::apply_aspect_ratio.                                       *)

\* "Preserve major dimension logic" and "Fit to bounds if necessary"
NewSize(norm_aspect, max_dim) ==
    LET s0 == IF RGe(norm_aspect, One)
              THEN Vec(max_dim, RDiv(max_dim, norm_aspect))
              ELSE Vec(RMul(max_dim, norm_aspect), max_dim)
        s1 == IF RGt(s0.x, One) THEN Vec(One, RDiv(One, norm_aspect)) ELSE s0
        s2 == IF RGt(s1.y, One) THEN Vec(RMul(One, norm_aspect), One) ELSE s1
    IN  s2

\* "Ensure it stays within 0.0-1.0 bounds logic": four translations in turn
TranslateIntoBounds(r) ==
    LET r1 == IF RLt(r.min.x, Zero)
              THEN RectTranslate(r, Vec(RNeg(r.min.x), Zero)) ELSE r
        r2 == IF RLt(r1.min.y, Zero)
              THEN RectTranslate(r1, Vec(Zero, RNeg(r1.min.y))) ELSE r1
        r3 == IF RGt(r2.max.x, One)
              THEN RectTranslate(r2, Vec(RSub(One, r2.max.x), Zero)) ELSE r2
        r4 == IF RGt(r3.max.y, One)
              THEN RectTranslate(r3, Vec(Zero, RSub(One, r3.max.y))) ELSE r3
    IN  r4

\* "Hard clamp if still out"
HardClamp(r) == Rect(PosClamp01(r.min), PosClamp01(r.max))

\* MaxDim taking the smaller dimension
MinDim(rect) == RMin(RectWidth(rect), RectHeight(rect))

\* max_dim = current_w.max(current_h)
MaxDim(rect) == RMax(RectWidth(rect), RectHeight(rect))

\* the rectangle before the hard clamp: sized, centred on the prior centre,
\* translated into bounds
PlaceAspect(rect, norm_aspect) ==
    TranslateIntoBounds(
        RectFromCenterSize(RectCenter(rect), NewSize(norm_aspect, MaxDim(rect))))

\* the body of `if let Some(ratio) = target_ratio`: the new rectangle
FitAspect(rect, norm_aspect) == HardClamp(PlaceAspect(rect, norm_aspect))

\* the value apply_aspect_ratio leaves in self.crop_rect; img and crop are the
\* Options self.image and self.crop_rect
ApplyAspectRatio(img, crop, mode, cw, ch) ==
    IF img = None \/ crop = None THEN crop
    ELSE LET image_size == ImageSize(img)
             ratio == TargetRatio(mode, image_size, cw, ch)
         IN  IF ratio = None THEN crop
             ELSE Some(FitAspect(crop[1], NormAspect(ratio, image_size)))

----------------------------------------------------------------------------
(* ImageCropper::hit_test.                                                 *)

Tolerance == 10

DistSq(p, q) ==
    LET dx == RSub(p.x, q.x)
        dy == RSub(p.y, q.y)
    IN  RAdd(RMul(dx, dx), RMul(dy, dy))

\* (a - b).abs() < tolerance
Within(a, b) == RLt(RAbs(RSub(a, b)), RInt(Tolerance))

\* pos.distance(q) < tolerance (a distance is no shorter than either of its
\* components, so the squares are only taken when both are within tolerance)
Near(p, q) ==
    /\ Within(p.x, q.x)
    /\ Within(p.y, q.y)
    /\ RLt(DistSq(p, q), RInt(Tolerance * Tolerance))

\* a hit test that tries the edges before the corners
hit_test_edges_first(pos, rect) ==
    LET min == rect.min
        max == rect.max
    IN  CASE Within(pos.x, min.x) /\ RGt(pos.y, min.y) /\ RLt(pos.y, max.y) -> "Left"
          [] Within(pos.x, max.x) /\ RGt(pos.y, min.y) /\ RLt(pos.y, max.y) -> "Right"
          [] Within(pos.y, min.y) /\ RGt(pos.x, min.x) /\ RLt(pos.x, max.x) -> "Top"
          [] Within(pos.y, max.y) /\ RGt(pos.x, min.x) /\ RLt(pos.x, max.x) -> "Bottom"
          [] Near(pos, min) -> "TopLeft"
          [] Near(pos, Vec(max.x, min.y)) -> "TopRight"
          [] Near(pos, Vec(min.x, max.y)) -> "BottomLeft"
          [] Near(pos, max) -> "BottomRight"
          [] RectContains(rect, pos) -> "Center"
          [] OTHER -> NoHandle

hit_test(pos, rect) ==
    LET min == rect.min
        max == rect.max
    IN  CASE Near(pos, min) -> "TopLeft"
          [] Near(pos, Vec(max.x, min.y)) -> "TopRight"
          [] Near(pos, Vec(min.x, max.y)) -> "BottomLeft"
          [] Near(pos, max) -> "BottomRight"
          [] Within(pos.x, min.x) /\ RGt(pos.y, min.y) /\ RLt(pos.y, max.y) -> "Left"
          [] Within(pos.x, max.x) /\ RGt(pos.y, min.y) /\ RLt(pos.y, max.y) -> "Right"
          [] Within(pos.y, min.y) /\ RGt(pos.x, min.x) /\ RLt(pos.x, max.x) -> "Top"
          [] Within(pos.y, max.y) /\ RGt(pos.x, min.x) /\ RLt(pos.x, max.x) -> "Bottom"
          [] RectContains(rect, pos) -> "Center"
          [] OTHER -> NoHandle

----------------------------------------------------------------------------
(* The layout of the image widget in update.                               *)

PADDING == 20

\* display_size: the image scaled to fit the available space less the padding
DisplaySize(image_size, available_size) ==
    LET max_size == Vec(RSub(available_size.x, RInt(PADDING * 2)),
                        RSub(available_size.y, RInt(PADDING * 2)))
        scale == RMin(RDiv(max_size.x, image_size.x), RDiv(max_size.y, image_size.y))
    IN  Vec(RMul(image_size.x, scale), RMul(image_size.y, scale))

\* image_rect.lerp_inside(t), with image_rect.min the origin (egui clamps t
\* into [0, 1] before interpolating)
LerpInside(display_size, t) ==
    Vec(RMul(display_size.x, Clamp01(t.x)), RMul(display_size.y, Clamp01(t.y)))

\* screen_crop_rect
ScreenCropRect(display_size, rect) ==
    Rect(LerpInside(display_size, rect.min), LerpInside(display_size, rect.max))

----------------------------------------------------------------------------
(* One drag frame of update: `if response.dragged()` with a selected       *)
(* handle.                                                                 *)

\* the `target_ratio` match of the drag frame (the same table again)
DragTargetRatio(mode, image_size, cw, ch) ==
    CASE mode = "Free" -> None
      [] mode = "Original" -> RDiv(image_size.x, image_size.y)
      [] mode = "Square" -> One
      [] mode = "R3_2" -> R(3, 2)
      [] mode = "R4_3" -> R(4, 3)
      [] mode = "R16_9" -> R(16, 9)
      [] mode = "R16_10" -> R(16, 10)
      [] mode = "R2_3" -> R(2, 3)
      [] mode = "R3_4" -> R(3, 4)
      [] mode = "R9_16" -> R(9, 16)
      [] mode = "R10_16" -> R(10, 16)
      [] mode = "Custom" -> R(cw, ch)

\* delta_norm = delta / display_size
DeltaNorm(delta, display_size) ==
    Vec(RDiv(delta.x, display_size.x), RDiv(delta.y, display_size.y))

to_screen(w_norm, h_norm, display_size) ==
    Vec(RMul(w_norm, display_size.x), RMul(h_norm, display_size.y))

\* to_norm dividing both components by the display width
to_norm_by_width(w_screen, h_screen, display_size) ==
    Vec(RDiv(w_screen, display_size.x), RDiv(h_screen, display_size.x))

to_norm(w_screen, h_screen, display_size) ==
    Vec(RDiv(w_screen, display_size.x), RDiv(h_screen, display_size.y))

\* FinalDelta without the bounds: the translation is the raw delta
FinalDeltaUnbounded(rect, delta_norm) == delta_norm

\* "Safe Panning: constrain delta to stay within bounds" (final_delta)
FinalDelta(rect, delta_norm) ==
    LET x1 == IF RLt(RAdd(rect.min.x, delta_norm.x), Zero)
              THEN RNeg(rect.min.x) ELSE delta_norm.x
        x2 == IF RGt(RAdd(rect.max.x, x1), One) THEN RSub(One, rect.max.x) ELSE x1
        y1 == IF RLt(RAdd(rect.min.y, delta_norm.y), Zero)
              THEN RNeg(rect.min.y) ELSE delta_norm.y
        y2 == IF RGt(RAdd(rect.max.y, y1), One) THEN RSub(One, rect.max.y) ELSE y1
    IN  Vec(x2, y2)

\* ResizeHandle::Center, in the locked and in the free branch alike
MoveRect(rect, delta_norm) == RectTranslate(rect, FinalDelta(rect, delta_norm))

\* "1. Identify Anchor (Fixed Point)"
Anchor(rect, handle) ==
    CASE handle = "TopLeft" -> rect.max
      [] handle = "TopRight" -> Vec(rect.min.x, rect.max.y)
      [] handle = "BottomLeft" -> Vec(rect.max.x, rect.min.y)
      [] handle = "BottomRight" -> rect.min

\* "... and current Corner"
Corner(rect, handle) ==
    CASE handle = "TopLeft" -> rect.min
      [] handle = "TopRight" -> Vec(rect.max.x, rect.min.y)
      [] handle = "BottomLeft" -> Vec(rect.min.x, rect.max.y)
      [] handle = "BottomRight" -> rect.max

\* "3. Project onto aspect ratio vector" and "4. Convert back to normalized"
FinalDim(raw_w_norm, raw_h_norm, ratio, display_size) ==
    LET p == to_screen(raw_w_norm, raw_h_norm, display_size)
        lambda == RDiv(RAdd(RMul(p.x, ratio), p.y), RAdd(RMul(ratio, ratio), One))
    IN  to_norm(RMul(ratio, lambda), lambda, display_size)

\* the raw dimensions taken with their sign
RawDimSigned(corner, anchor) ==
    Vec(RSub(corner.x, anchor.x), RSub(corner.y, anchor.y))

\* "Calculate raw new width/height (absolute)": (raw_w_norm, raw_h_norm)
RawDim(corner, anchor) ==
    Vec(RAbs(RSub(corner.x, anchor.x)), RAbs(RSub(corner.y, anchor.y)))

\* corner handles under a locked ratio
LockedCorner(rect, handle, delta_norm, ratio, display_size) ==
    LET anchor == Anchor(rect, handle)
        corner == VAdd(Corner(rect, handle), delta_norm)
        raw_w_norm == RawDim(corner, anchor).x
        raw_h_norm == RawDim(corner, anchor).y
        final_dim == FinalDim(raw_w_norm, raw_h_norm, ratio, display_size)
    IN  CASE handle = "TopLeft" -> Rect(VSub(anchor, final_dim), anchor)
          [] handle = "TopRight" ->
                Rect(Vec(anchor.x, RSub(anchor.y, final_dim.y)),
                     Vec(RAdd(anchor.x, final_dim.x), anchor.y))
          [] handle = "BottomLeft" ->
                Rect(Vec(RSub(anchor.x, final_dim.x), anchor.y),
                     Vec(anchor.x, RAdd(anchor.y, final_dim.y)))
          [] handle = "BottomRight" -> Rect(anchor, VAdd(anchor, final_dim))

\* "Side Handles: Drive one dimension, center the other" (Left | Right)
\* a side drag that hangs the new height from the top edge instead of centering it
LockedLeftRightFromTop(rect, handle, delta_norm, norm_aspect) ==
    LET moved == IF handle = "Left"
                 THEN Rect(Vec(RAdd(rect.min.x, delta_norm.x), rect.min.y), rect.max)
                 ELSE Rect(rect.min, Vec(RAdd(rect.max.x, delta_norm.x), rect.max.y))
        new_w == IF handle = "Left"
                 THEN RSub(RectWidth(rect), delta_norm.x)
                 ELSE RAdd(RectWidth(rect), delta_norm.x)
        new_h == RDiv(new_w, norm_aspect)
    IN  Rect(moved.min, Vec(moved.max.x, RAdd(moved.min.y, new_h)))

LockedLeftRight(rect, handle, delta_norm, norm_aspect) ==
    LET moved == IF handle = "Left"
                 THEN Rect(Vec(RAdd(rect.min.x, delta_norm.x), rect.min.y), rect.max)
                 ELSE Rect(rect.min, Vec(RAdd(rect.max.x, delta_norm.x), rect.max.y))
        new_w == IF handle = "Left"
                 THEN RSub(RectWidth(rect), delta_norm.x)
                 ELSE RAdd(RectWidth(rect), delta_norm.x)
        new_h == RDiv(new_w, norm_aspect)
        old_center_y == RectCenter(moved).y
    IN  Rect(Vec(moved.min.x, RSub(old_center_y, RMul(new_h, Half))),
             Vec(moved.max.x, RAdd(old_center_y, RMul(new_h, Half))))

\* (Top | Bottom)
LockedTopBottom(rect, handle, delta_norm, norm_aspect) ==
    LET moved == IF handle = "Top"
                 THEN Rect(Vec(rect.min.x, RAdd(rect.min.y, delta_norm.y)), rect.max)
                 ELSE Rect(rect.min, Vec(rect.max.x, RAdd(rect.max.y, delta_norm.y)))
        new_h == IF handle = "Top"
                 THEN RSub(RectHeight(rect), delta_norm.y)
                 ELSE RAdd(RectHeight(rect), delta_norm.y)
        new_w == RMul(new_h, norm_aspect)
        old_center_x == RectCenter(moved).x
    IN  Rect(Vec(RSub(old_center_x, RMul(new_w, Half)), moved.min.y),
             Vec(RAdd(old_center_x, RMul(new_w, Half)), moved.max.y))

\* "Free resize", the resize handles
FreeResize(rect, handle, d) ==
    CASE handle = "TopLeft" -> Rect(VAdd(rect.min, d), rect.max)
      [] handle = "TopRight" ->
            Rect(Vec(rect.min.x, RAdd(rect.min.y, d.y)), Vec(RAdd(rect.max.x, d.x), rect.max.y))
      [] handle = "BottomLeft" ->
            Rect(Vec(RAdd(rect.min.x, d.x), rect.min.y), Vec(rect.max.x, RAdd(rect.max.y, d.y)))
      [] handle = "BottomRight" -> Rect(rect.min, VAdd(rect.max, d))
      [] handle = "Top" -> Rect(Vec(rect.min.x, RAdd(rect.min.y, d.y)), rect.max)
      [] handle = "Bottom" -> Rect(rect.min, Vec(rect.max.x, RAdd(rect.max.y, d.y)))
      [] handle = "Left" -> Rect(Vec(RAdd(rect.min.x, d.x), rect.min.y), rect.max)
      [] handle = "Right" -> Rect(rect.min, Vec(RAdd(rect.max.x, d.x), rect.max.y))

\* the rectangle the frame computes before "Clamp and ensure min < max"
Candidate(rect, handle, delta, mode, cw, ch, image_size, display_size) ==
    LET delta_norm == DeltaNorm(delta, display_size)
        target_ratio == DragTargetRatio(mode, image_size, cw, ch)
    IN  IF handle = "Center" THEN MoveRect(rect, delta_norm)
        ELSE IF target_ratio = None THEN FreeResize(rect, handle, delta_norm)
        ELSE IF handle \in Corners
             THEN LockedCorner(rect, handle, delta_norm, target_ratio, display_size)
        ELSE IF handle \in {"Left", "Right"}
             THEN LockedLeftRight(rect, handle, delta_norm,
                                  NormAspect(target_ratio, image_size))
        ELSE LockedTopBottom(rect, handle, delta_norm,
                             NormAspect(target_ratio, image_size))

\* "Clamp and ensure min < max": min is clamped from below, max from above
ClampEdges(r) ==
    Rect(Vec(IF RLt(r.min.x, Zero) THEN Zero ELSE r.min.x,
             IF RLt(r.min.y, Zero) THEN Zero ELSE r.min.y),
         Vec(IF RGt(r.max.x, One) THEN One ELSE r.max.x,
             IF RGt(r.max.y, One) THEN One ELSE r.max.y))

\* SwapInverted with the y axis forgotten
SwapInvertedXOnly(r) ==
    LET sx == RGt(r.min.x, r.max.x)
    IN  Rect(Vec(IF sx THEN r.max.x ELSE r.min.x, r.min.y),
             Vec(IF sx THEN r.min.x ELSE r.max.x, r.max.y))

\* "TODO: Ensure min < max": swap per axis
SwapInverted(r) ==
    LET sx == RGt(r.min.x, r.max.x)
        sy == RGt(r.min.y, r.max.y)
    IN  Rect(Vec(IF sx THEN r.max.x ELSE r.min.x, IF sy THEN r.max.y ELSE r.min.y),
             Vec(IF sx THEN r.min.x ELSE r.max.x, IF sy THEN r.min.y ELSE r.max.y))

\* the clamp/repair step that ends every drag frame
clampRect(r) == SwapInverted(ClampEdges(r))

----------------------------------------------------------------------------
(* "Save Cropped Image": the window handed to image.crop_imm.              *)

\* (v * full).max(0.0) as u32
PixelOrigin(v, full) == Trunc(RMax(RMul(v, RInt(full)), Zero))

\* PixelLength rounding to nearest instead of truncating
PixelLengthRounded(len, full) ==
    LET v == RAdd(RMax(RMul(len, RInt(full)), One), Half)
    IN  v[1] \div v[2]

\* (len * full).max(1.0) as u32
PixelLength(len, full) == Trunc(RMax(RMul(len, RInt(full)), One))

\* u32::min
Min(a, b) == IF b < a THEN b ELSE a

\* EnsureBounds with the extent clamped and the origin not
EnsureBoundsExtentOnly(x0, y0, width0, height0, img) ==
    <<x0, y0, Min(width0, img[1] - x0), Min(height0, img[2] - y0)>>

\* "Ensure bounds"
EnsureBounds(x0, y0, width0, height0, img) ==
    LET x == Min(x0, img[1] - 1)
        y == Min(y0, img[2] - 1)
    IN  <<x, y, Min(width0, img[1] - x), Min(height0, img[2] - y)>>

ExportWindow(rect, img) ==
    EnsureBounds(PixelOrigin(rect.min.x, img[1]), PixelOrigin(rect.min.y, img[2]),
                 PixelLength(RectWidth(rect), img[1]),
                 PixelLength(RectHeight(rect), img[2]), img)

----------------------------------------------------------------------------
(* Inputs of the model.                                                    *)

\* the images a file can decode to: <<width, height>>
Images == {<<4000, 3000>>, <<1920, 1080>>}

\* ui.available_size() when the image widget is laid out
AvailableSizes == {<<440, 340>>}

\* ui.available_size() of a window shrunk until the panel is narrower than the
\* two paddings (a width of exactly 40 gives a display size of zero and a
\* division 0/0, which has no value here, and is left out)
ShrunkSizes == {<<30, 340>>}

\* response.drag_delta() of one frame, in screen units
Deltas ==
    {<<100, 75>>, <<-100, -75>>, <<100, -75>>, <<400, 300>>, <<500, 375>>,
     <<-500, -375>>}

\* values the two DragValue fields can be dragged to (their range is 1..=100)
CustomValues == {1, 5, 100}

\* where the pointer goes down: at a corner, an edge midpoint or the centre
\* of the crop rectangle on screen, or displaced from its top left corner
Aims == {Zero, Half, One}
Offsets == {<<5, 5>>, <<8, 8>>, <<-15, -15>>}

PointerPositions(scr) ==
    { Vec(RAdd(scr.min.x, RMul(a, RectWidth(scr))),
          RAdd(scr.min.y, RMul(b, RectHeight(scr)))) : a \in Aims, b \in Aims }
    \cup { VAdd(scr.min, Vec(RInt(o[1]), RInt(o[2]))) : o \in Offsets }

----------------------------------------------------------------------------
(* The session: ImageCropper::new and the events update handles.           *)

\* the record of a frame: the event, the handle it used, crop_rect before it,
\* the solver's candidate, and the pointer input (delta_norm, position, and
\* display_size) of a drag frame
Input(op, handle, prev, cand, delta_norm, pos, display_size) ==
    [op |-> op, handle |-> handle, prev |-> prev, cand |-> cand,
     delta_norm |-> delta_norm, pos |-> pos, display_size |-> display_size]

Frame(op, handle, prev, cand) == Input(op, handle, prev, cand, None, None, None)

Init ==
    /\ image = None
    /\ texture = None
    /\ crop_rect = None
    /\ selected_handle = NoHandle
    /\ aspect_ratio_mode = "Free"
    /\ custom_w = 4
    /\ custom_h = 3
    /\ is_portrait = FALSE
    /\ dragging = FALSE
    /\ cropped = None
    /\ last = Frame("new", NoHandle, None, None)
    /\ steps = 0

\* a load that leaves the handle of the drag in progress selected
LoadedKeepsHandle(op, img) ==
    /\ image' = img
    /\ texture' = img
    /\ crop_rect' = Some(FullRect)
    /\ cropped' = None
    /\ last' = Frame(op, NoHandle, crop_rect, None)
    /\ UNCHANGED <<selected_handle, aspect_ratio_mode, custom_w, custom_h,
                   is_portrait, dragging, steps>>

\* load_texture and the two places that call it: image::open succeeded
Loaded(op, img) ==
    /\ image' = img
    /\ texture' = img
    /\ crop_rect' = Some(FullRect)
    /\ selected_handle' = NoHandle
    /\ cropped' = None
    /\ last' = Frame(op, NoHandle, crop_rect, None)
    /\ UNCHANGED <<aspect_ratio_mode, custom_w, custom_h, is_portrait, dragging, steps>>

\* a failed load that stores the failure: `self.image = image::open(path).ok()`
NotLoadedStoresFailure(op) ==
    /\ image' = None
    /\ selected_handle' = NoHandle
    /\ cropped' = None
    /\ last' = Frame(op, NoHandle, crop_rect, None)
    /\ UNCHANGED <<texture, crop_rect, aspect_ratio_mode, custom_w, custom_h,
                   is_portrait, dragging, steps>>

\* image::open failed (or the dropped file has no path)
NotLoaded(op) ==
    /\ cropped' = None
    /\ last' = Frame(op, NoHandle, crop_rect, None)
    /\ UNCHANGED <<image, texture, crop_rect, selected_handle, aspect_ratio_mode,
                   custom_w, custom_h, is_portrait, dragging, steps>>

DropFile == \E img \in Images : Loaded("drop", img)
DropFileFails == NotLoaded("drop_failed")

\* the buttons and the combo box take a click: no drag is in progress
OpenImage == ~dragging /\ \E img \in Images : Loaded("open", img)
OpenImageFails == ~dragging /\ NotLoaded("open_failed")

\* a combo box that lists the named ratios of both orientations
OfferedBothOrientations(m) == m \in Modes

\* the entries the combo box offers
Offered(m) ==
    \/ m \in {"Free", "Original", "Square", "Custom"}
    \/ ~is_portrait /\ m \in Landscape
    \/ is_portrait /\ m \in Portrait

\* `if changed { self.apply_aspect_ratio(); }` after the controls set the fields
Changed(op, mode, cw, ch, portrait) ==
    /\ aspect_ratio_mode' = mode
    /\ custom_w' = cw
    /\ custom_h' = ch
    /\ is_portrait' = portrait
    /\ crop_rect' = ApplyAspectRatio(image, crop_rect, mode, cw, ch)
    /\ cropped' = None
    /\ last' = Frame(op, NoHandle, crop_rect, None)
    /\ steps' = steps + 1
    /\ UNCHANGED <<image, texture, selected_handle, dragging>>

Controls == texture # None /\ ~dragging /\ steps < MaxSteps

SelectMode ==
    /\ Controls
    /\ \E m \in Modes :
        /\ Offered(m)
        /\ m # aspect_ratio_mode
        /\ Changed("select", m, custom_w, custom_h, is_portrait)

\* a toggle that treats Custom like every other mode
ToggledByCounterpart(mode, cw, ch, portrait) ==
    <<counterpart(mode), cw, ch, ~portrait>>

\* the fields <<aspect_ratio_mode, custom_w, custom_h, is_portrait>> after the
\* orientation toggle
Toggled(mode, cw, ch, portrait) ==
    IF mode = "Custom"
    THEN <<mode, ch, cw, ~portrait>>
    ELSE <<counterpart(mode), cw, ch, ~portrait>>

ToggleOrientation ==
    /\ Controls
    /\ LET t == Toggled(aspect_ratio_mode, custom_w, custom_h, is_portrait)
       IN  Changed("toggle", t[1], t[2], t[3], t[4])

SetCustomW ==
    /\ Controls
    /\ aspect_ratio_mode = "Custom"
    /\ \E v \in CustomValues \ {custom_w} :
        Changed("custom", aspect_ratio_mode, v, custom_h, is_portrait)

SetCustomH ==
    /\ Controls
    /\ aspect_ratio_mode = "Custom"
    /\ \E v \in CustomValues \ {custom_h} :
        Changed("custom", aspect_ratio_mode, custom_w, v, is_portrait)

\* "Save Cropped Image", the save dialog returning a path
Save ==
    /\ texture # None /\ ~dragging
    /\ image # None /\ crop_rect # None
    /\ cropped' = ExportWindow(crop_rect[1], image)
    /\ last' = Frame("save", NoHandle, crop_rect, None)
    /\ UNCHANGED <<image, texture, crop_rect, selected_handle, aspect_ratio_mode,
                   custom_w, custom_h, is_portrait, dragging, steps>>

\* `if response.dragged()`: one frame with the handle `handle`; pos is the
\* pointer position of a frame that starts a drag (None otherwise)
Dragged(op, handle, delta, available_size, pos) ==
    LET image_size == ImageSize(texture)
        display_size == DisplaySize(image_size, available_size)
    IN  IF handle = NoHandle
        THEN /\ last' = Input(op, handle, crop_rect, None, None, pos,
                              Some(display_size))
             /\ UNCHANGED <<crop_rect, steps>>
        ELSE LET cand == Candidate(crop_rect[1], handle, delta, aspect_ratio_mode,
                                   custom_w, custom_h, image_size, display_size)
             IN  /\ crop_rect' = Some(clampRect(cand))
                 /\ last' = Input(op, handle, crop_rect, Some(cand),
                                  Some(DeltaNorm(delta, display_size)), pos,
                                  Some(display_size))
                 /\ steps' = steps + 1

Sizes(s) == Vec(RInt(s[1]), RInt(s[2]))

\* response.drag_started(): the hit test, then the first frame of the drag,
\* in a window whose available size is one of sizes
DragStartIn(sizes) ==
    /\ texture # None /\ crop_rect # None
    /\ ~dragging
    /\ steps < MaxSteps
    /\ \E a \in sizes, d \in Deltas :
        LET display_size == DisplaySize(ImageSize(texture), Sizes(a))
            scr == ScreenCropRect(display_size, crop_rect[1])
        IN  \/ \E pos \in PointerPositions(scr) :
                 /\ selected_handle' = hit_test(pos, scr)
                 /\ Dragged("drag_start", selected_handle', Sizes(d), Sizes(a), Some(pos))
            \/ \* interact_pointer_pos() is None: no hit test
               /\ selected_handle' = selected_handle
               /\ Dragged("drag_start", selected_handle', Sizes(d), Sizes(a), None)
    /\ dragging' = TRUE
    /\ cropped' = None
    /\ UNCHANGED <<image, texture, aspect_ratio_mode, custom_w, custom_h, is_portrait>>

DragStart == DragStartIn(AvailableSizes)

\* a later frame of the drag
DragMoveIn(sizes) ==
    /\ texture # None /\ crop_rect # None
    /\ dragging
    /\ steps < MaxSteps
    /\ \E a \in sizes, d \in Deltas :
        Dragged("drag", selected_handle, Sizes(d), Sizes(a), None)
    /\ cropped' = None
    /\ UNCHANGED <<image, texture, selected_handle, aspect_ratio_mode, custom_w,
                   custom_h, is_portrait, dragging>>

DragMove == DragMoveIn(AvailableSizes)

\* a pointer-up that leaves the handle selected
DragStopKeepsHandle ==
    /\ texture # None /\ crop_rect # None
    /\ dragging
    /\ dragging' = FALSE
    /\ cropped' = None
    /\ last' = Frame("drag_stop", NoHandle, crop_rect, None)
    /\ UNCHANGED <<image, texture, crop_rect, selected_handle, aspect_ratio_mode,
                   custom_w, custom_h, is_portrait, steps>>

\* response.drag_stopped()
DragStop ==
    /\ texture # None /\ crop_rect # None
    /\ dragging
    /\ selected_handle' = NoHandle
    /\ dragging' = FALSE
    /\ cropped' = None
    /\ last' = Frame("drag_stop", NoHandle, crop_rect, None)
    /\ UNCHANGED <<image, texture, crop_rect, aspect_ratio_mode, custom_w, custom_h,
                   is_portrait, steps>>

Next ==
    \/ DropFile
    \/ DropFileFails
    \/ OpenImage
    \/ OpenImageFails
    \/ SelectMode
    \/ ToggleOrientation
    \/ SetCustomW
    \/ SetCustomH
    \/ Save
    \/ DragStart
    \/ DragMove
    \/ DragStop

Spec == Init /\ [][Next]_vars

\* the same session in a window the user resizes, down to the shrunk sizes
DragStartResized == DragStartIn(AvailableSizes \cup ShrunkSizes)
DragMoveResized == DragMoveIn(AvailableSizes \cup ShrunkSizes)

NextResized ==
    \/ DropFile
    \/ DropFileFails
    \/ OpenImage
    \/ OpenImageFails
    \/ SelectMode
    \/ ToggleOrientation
    \/ SetCustomW
    \/ SetCustomH
    \/ Save
    \/ DragStartResized
    \/ DragMoveResized
    \/ DragStop

SpecResized == Init /\ [][NextResized]_vars

----------------------------------------------------------------------------
(* Properties.                                                             *)

InUnit(a) == RLe(Zero, a) /\ RLe(a, One)

\* every coordinate of r lies in [0, 1]
In01(r) == InUnit(r.min.x) /\ InUnit(r.min.y) /\ InUnit(r.max.x) /\ InUnit(r.max.y)

Ordered(r) == RLe(r.min.x, r.max.x) /\ RLe(r.min.y, r.max.y)

\* the frame just handled was a drag frame that reached the solver
DragFrame == last.op \in {"drag_start", "drag"} /\ last.cand # None

\* the frame just handled called apply_aspect_ratio
ApplyFrame == last.op \in {"select", "toggle", "custom"} /\ last.prev # None

\* C1: with an image loaded, every coordinate of the crop rectangle lies in
\* [0, 1], after load, after applyAspectRatio and after every drag frame.
C1_CoordinatesInUnit == crop_rect # None => In01(crop_rect[1])

\* C2: after every mutation the crop rectangle is ordered, min.x <= max.x and
\* min.y <= max.y; an axis a drag frame left inverted after clamping has its
\* min and max swapped.
C2_Ordered ==
    /\ crop_rect # None => Ordered(crop_rect[1])
    /\ DragFrame =>
        LET c == ClampEdges(last.cand[1])
            r == crop_rect[1]
        IN  /\ RGt(c.min.x, c.max.x) => r.min.x = c.max.x /\ r.max.x = c.min.x
            /\ RGt(c.min.y, c.max.y) => r.min.y = c.max.y /\ r.max.y = c.min.y

\* a drag frame whose candidate was inverted on the x axis, repaired
C2_Witness ==
    /\ DragFrame
    /\ RGt(last.cand[1].min.x, last.cand[1].max.x)
    /\ RLt(crop_rect[1].min.x, crop_rect[1].max.x)

\* C3: a Move (Center) drag frame on a rectangle within [0, 1] leaves every
\* edge within [0, 1] and keeps the rectangle's width and height.
C3_MoveStaysInside ==
    (DragFrame /\ last.handle = "Center" /\ In01(last.prev[1])) =>
        /\ In01(crop_rect[1])
        /\ RectWidth(crop_rect[1]) = RectWidth(last.prev[1])
        /\ RectHeight(crop_rect[1]) = RectHeight(last.prev[1])

\* a Move whose delta was cut short at the right edge of the image
C3_Witness ==
    /\ DragFrame /\ last.handle = "Center" /\ In01(last.prev[1])
    /\ crop_rect[1].max.x = One
    /\ RLt(last.prev[1].max.x, One)
    /\ RGt(crop_rect[1].min.x, Zero)

\* the pixel-space ratio of r on the image img is `ratio`:
\* width * imageWidth = ratio * height * imageHeight
HasPixelRatio(r, ratio, img) ==
    RMul(RectWidth(r), RInt(img[1])) = RMul(ratio, RMul(RectHeight(r), RInt(img[2])))

\* the target pixel ratio of the session's mode (None for Free)
Target == TargetRatio(aspect_ratio_mode, ImageSize(image), custom_w, custom_h)

\* C4: a corner drag frame under a locked mode whose unclamped result stays
\* within [0, 1] leaves a rectangle whose pixel-space ratio is the target ratio.
C4_CornerKeepsRatio ==
    (/\ DragFrame
     /\ last.handle \in Corners
     /\ aspect_ratio_mode # "Free"
     /\ In01(last.cand[1])) =>
        HasPixelRatio(crop_rect[1], Target, image)

\* such a frame, which resized the rectangle to one of positive area
C4_Witness ==
    /\ DragFrame
    /\ last.handle \in Corners
    /\ aspect_ratio_mode # "Free"
    /\ In01(last.cand[1])
    /\ crop_rect # last.prev
    /\ RGt(RectWidth(crop_rect[1]), Zero)
    /\ RLt(RectWidth(crop_rect[1]), One)

\* C5: applyAspectRatio with a locked mode on a rectangle within [0, 1] leaves
\* a rectangle within [0, 1] whose pixel-space ratio is the target ratio, and
\* the final hard clamp does not alter it.
C5_ApplyGivesRatio ==
    (/\ ApplyFrame
     /\ aspect_ratio_mode # "Free"
     /\ In01(last.prev[1])) =>
        /\ In01(crop_rect[1])
        /\ HasPixelRatio(crop_rect[1], Target, image)
        /\ crop_rect[1] =
              PlaceAspect(last.prev[1], NormAspect(Target, ImageSize(image)))

\* Square applied on a 1920x1080 image: the pixel crop is square
C5_Witness ==
    /\ ApplyFrame
    /\ aspect_ratio_mode = "Square"
    /\ image = <<1920, 1080>>
    /\ In01(last.prev[1])
    /\ RGt(RectWidth(crop_rect[1]), Zero)
    /\ RMul(RectWidth(crop_rect[1]), RInt(1920)) =
          RMul(RectHeight(crop_rect[1]), RInt(1080))

\* C6: applyAspectRatio leaves a rectangle within [0, 1] that already has the
\* target ratio unchanged; 4:3 on the full rectangle of a 4000x3000 image
\* leaves it unchanged; applied twice it gives what it gives applied once.
C6_ApplyIsStable ==
    /\ (/\ crop_rect # None
        /\ aspect_ratio_mode # "Free"
        /\ In01(crop_rect[1])
        /\ HasPixelRatio(crop_rect[1], Target, image)) =>
            ApplyAspectRatio(image, crop_rect, aspect_ratio_mode, custom_w, custom_h)
                = crop_rect
    /\ (/\ ApplyFrame
        /\ aspect_ratio_mode = "R4_3"
        /\ image = <<4000, 3000>>
        /\ last.prev = Some(FullRect)) => crop_rect = Some(FullRect)
    /\ ApplyFrame =>
            ApplyAspectRatio(image, crop_rect, aspect_ratio_mode, custom_w, custom_h)
                = crop_rect

\* 4:3 applied to the full rectangle of a 4000x3000 image
C6_Witness ==
    /\ ApplyFrame
    /\ aspect_ratio_mode = "R4_3"
    /\ image = <<4000, 3000>>
    /\ last.prev = Some(FullRect)
    /\ crop_rect = Some(FullRect)

\* an application of the ratio the rectangle already has, on a rectangle
\* smaller than the image
C6_WitnessSameRatio ==
    /\ ApplyFrame
    /\ aspect_ratio_mode = "Custom"
    /\ In01(last.prev[1])
    /\ last.prev # Some(FullRect)
    /\ crop_rect = last.prev
    /\ RGt(RectWidth(crop_rect[1]), Zero)

\* the literal pixel ratio of a mode that has one
Literal(m) == TargetRatio(m, Vec(One, One), 1, 1)

\* C7: counterpart is an involution; a landscape named ratio maps to the
\* portrait ratio of reciprocal value and back; Free, Original, Square and
\* Custom map to themselves.  Stated of the mode the session holds (every one
\* of the twelve modes is reached).
C7_CounterpartInvolution ==
    LET m == aspect_ratio_mode
        c == counterpart(m)
    IN  /\ counterpart(c) = m
        /\ m \in Landscape => c \in Portrait /\ RMul(Literal(m), Literal(c)) = One
        /\ m \in Portrait => c \in Landscape /\ RMul(Literal(m), Literal(c)) = One
        /\ m \in {"Free", "Original", "Square", "Custom"} => c = m

\* the toggle has replaced a landscape ratio by its portrait counterpart
C7_Witness ==
    /\ last.op = "toggle"
    /\ is_portrait
    /\ aspect_ratio_mode = "R10_16"

\* C8: the clamp/repair step is idempotent on every candidate rectangle a drag
\* frame produces.
C8_ClampRectIdempotent ==
    DragFrame => clampRect(clampRect(last.cand[1])) = clampRect(last.cand[1])

\* the window of the export
Exported == last.op = "save" /\ cropped # None

\* C9: for a crop rectangle within [0, 1] with min <= max, the exported window
\* satisfies x + width <= W, y + height <= H, width >= 1 and height >= 1.
C9_WindowInsideImage ==
    (Exported /\ In01(crop_rect[1]) /\ Ordered(crop_rect[1])) =>
        /\ cropped[1] + cropped[3] <= image[1]
        /\ cropped[2] + cropped[4] <= image[2]
        /\ cropped[3] >= 1
        /\ cropped[4] >= 1

\* the export of a rectangle of zero width that lies on the right image edge
C9_Witness ==
    /\ Exported
    /\ In01(crop_rect[1])
    /\ crop_rect[1].min.x = One
    /\ crop_rect[1].max.x = One
    /\ cropped[1] = image[1] - 1
    /\ cropped[3] = 1

\* floor and round-to-nearest (half away from zero) of a non-negative number
Floor(a) == a[1] \div a[2]
Round(a) == Floor(RAdd(a, Half))

\* the products the export starts from
ProductX == RMul(crop_rect[1].min.x, RInt(image[1]))
ProductY == RMul(crop_rect[1].min.y, RInt(image[2]))
ProductW == RMul(RectWidth(crop_rect[1]), RInt(image[1]))
ProductH == RMul(RectHeight(crop_rect[1]), RInt(image[2]))

\* the window needs no clamping: the origin is a pixel of the image, both
\* extents are at least one pixel and, rounded up or down, fit in the image
NoClampNeeded ==
    /\ In01(crop_rect[1]) /\ Ordered(crop_rect[1])
    /\ Floor(ProductX) <= image[1] - 1
    /\ Floor(ProductY) <= image[2] - 1
    /\ RGe(ProductW, One) /\ RGe(ProductH, One)
    /\ Floor(ProductX) + Round(ProductW) <= image[1]
    /\ Floor(ProductY) + Round(ProductH) <= image[2]

\* C10 as claimed: when the window needs no clamping, the exported window is
\* x = floor(min.x * W), y = floor(min.y * H), width = round(rectWidth * W),
\* height = round(rectHeight * H).
C10_WindowRounded ==
    (Exported /\ NoClampNeeded) =>
        cropped = <<Floor(ProductX), Floor(ProductY), Round(ProductW), Round(ProductH)>>

\* C10 amended: when the window needs no clamping, the exported width and
\* height are the products truncated to integers, floor(rectWidth * W) and
\* floor(rectHeight * H), and x = floor(min.x * W), y = floor(min.y * H).
C10_WindowTruncated ==
    (Exported /\ NoClampNeeded) =>
        cropped = <<Floor(ProductX), Floor(ProductY), Floor(ProductW), Floor(ProductH)>>

\* an export whose width product has a fractional part of a half or more
C10_Witness ==
    /\ Exported /\ NoClampNeeded
    /\ Round(ProductW) = Floor(ProductW) + 1
    /\ cropped[3] = Floor(ProductW)

\* ---- loading ----

\* C11: when decoding fails (dropped file or Open Image), the image, the crop
\* rectangle, the selected handle, the aspect mode, the custom integers and the
\* orientation flag are all unchanged.
C11_FailedLoadChangesNothing ==
    [][last'.op \in {"drop_failed", "open_failed"} =>
         UNCHANGED <<image, crop_rect, selected_handle, aspect_ratio_mode,
                     custom_w, custom_h, is_portrait>>]_vars

\* a file that fails to decode is dropped in the middle of a drag, on a session
\* with an image, a handle selected and a rectangle that is not the full image
C11_Witness ==
    /\ last.op = "drop_failed"
    /\ image # None
    /\ selected_handle # NoHandle
    /\ crop_rect # Some(FullRect)

\* C12: every successful load, in any session state (mid-drag and with a locked
\* mode selected included), sets the crop rectangle to the full image and clears
\* the selected handle, and leaves the aspect mode, the custom integers and the
\* orientation flag unchanged.
C12_LoadResetsRect ==
    [][last'.op \in {"drop", "open"} =>
         /\ crop_rect' = Some(FullRect)
         /\ selected_handle' = NoHandle
         /\ image' # None
         /\ UNCHANGED <<aspect_ratio_mode, custom_w, custom_h, is_portrait>>]_vars

\* an image is dropped in the middle of a drag, with a locked mode selected and
\* a rectangle that was not the full image
C12_Witness ==
    /\ last.op = "drop"
    /\ dragging
    /\ aspect_ratio_mode \notin {"Free"}
    /\ last.prev \notin {None, Some(FullRect)}
    /\ crop_rect = Some(FullRect)
    /\ selected_handle = NoHandle

\* ---- free resize ----

\* the coordinates a resize handle owns
OwnsMinX(h) == h \in {"TopLeft", "BottomLeft", "Left"}
OwnsMinY(h) == h \in {"TopLeft", "TopRight", "Top"}
OwnsMaxX(h) == h \in {"TopRight", "BottomRight", "Right"}
OwnsMaxY(h) == h \in {"BottomLeft", "BottomRight", "Bottom"}

\* r with exactly the coordinates handle h owns moved by d
MovedBy(r, h, d) ==
    Rect(Vec(IF OwnsMinX(h) THEN RAdd(r.min.x, d.x) ELSE r.min.x,
             IF OwnsMinY(h) THEN RAdd(r.min.y, d.y) ELSE r.min.y),
         Vec(IF OwnsMaxX(h) THEN RAdd(r.max.x, d.x) ELSE r.max.x,
             IF OwnsMaxY(h) THEN RAdd(r.max.y, d.y) ELSE r.max.y))

\* the coordinates h drags to stay within [0, 1] and do not cross the opposite side
DraggedStayInside(r, h, d) ==
    LET m == MovedBy(r, h, d)
    IN  /\ OwnsMinX(h) => InUnit(m.min.x)
        /\ OwnsMinY(h) => InUnit(m.min.y)
        /\ OwnsMaxX(h) => InUnit(m.max.x)
        /\ OwnsMaxY(h) => InUnit(m.max.y)
        /\ Ordered(m)

\* a Free-mode resize frame whose dragged coordinates stay inside and do not cross
FreeFrame ==
    /\ DragFrame
    /\ aspect_ratio_mode = "Free"
    /\ last.handle # "Center"
    /\ DraggedStayInside(last.prev[1], last.handle, last.delta_norm[1])

\* C13: in Free mode, when the dragged coordinates stay within [0,1] and do not
\* cross the opposite side, a drag frame moves exactly the coordinates owned by
\* the handle by the normalized delta and leaves all others unchanged
\* ([0.2,0.2]-[0.8,0.8] dragged by TopLeft with delta (-0.1,0.05) gets min
\* [0.1,0.25] and keeps max).
C13_FreeMovesOwned ==
    /\ FreeFrame => crop_rect[1] = MovedBy(last.prev[1], last.handle, last.delta_norm[1])
    /\ clampRect(FreeResize(Rect(Vec(R(1, 5), R(1, 5)), Vec(R(4, 5), R(4, 5))),
                            "TopLeft", Vec(R(-1, 10), R(1, 20))))
         = Rect(Vec(R(1, 10), R(1, 4)), Vec(R(4, 5), R(4, 5)))

\* the same for frames that start from a rectangle within [0,1]
C13_FreeMovesOwnedInRange ==
    (FreeFrame /\ In01(last.prev[1])) =>
        crop_rect[1] = MovedBy(last.prev[1], last.handle, last.delta_norm[1])

\* a Free-mode corner frame that moved both coordinates of its corner
C13_WitnessInRange ==
    /\ FreeFrame /\ In01(last.prev[1])
    /\ last.handle = "TopLeft"
    /\ crop_rect[1].min.x # last.prev[1].min.x
    /\ crop_rect[1].min.y # last.prev[1].min.y
    /\ crop_rect[1].max = last.prev[1].max

\* ---- hit test ----

\* the frame just handled was a pointer-down with a pointer position
PointerDown == last.op = "drag_start" /\ last.pos # None

\* the crop rectangle on screen when the pointer went down
DownRect == ScreenCropRect(last.display_size[1], last.prev[1])

Edges == {"Left", "Right", "Top", "Bottom"}

\* the corners within the tolerance radius of pos
NearCorners(pos, scr) == {c \in Corners : Near(pos, Corner(scr, c))}

\* pos is within tolerance of the line of edge e and strictly within its span
NearEdge(pos, scr, e) ==
    CASE e = "Left" -> Within(pos.x, scr.min.x) /\ RLt(scr.min.y, pos.y) /\ RLt(pos.y, scr.max.y)
      [] e = "Right" -> Within(pos.x, scr.max.x) /\ RLt(scr.min.y, pos.y) /\ RLt(pos.y, scr.max.y)
      [] e = "Top" -> Within(pos.y, scr.min.y) /\ RLt(scr.min.x, pos.x) /\ RLt(pos.x, scr.max.x)
      [] e = "Bottom" -> Within(pos.y, scr.max.y) /\ RLt(scr.min.x, pos.x) /\ RLt(pos.x, scr.max.x)

NearEdges(pos, scr) == {e \in Edges : NearEdge(pos, scr, e)}

\* the first element of the sequence order that is in the set S
First(order, S) ==
    order[CHOOSE i \in 1..Len(order) :
            order[i] \in S /\ \A j \in 1..(i - 1) : order[j] \notin S]

\* inside yields some handle, and None only outside
InsideYieldsHandle(pos, scr, h) ==
    /\ RectContains(scr, pos) => h # NoHandle
    /\ h = NoHandle => ~RectContains(scr, pos)

\* C14 as claimed: a pointer within the tolerance radius of a corner returns
\* that corner; otherwise a pointer within tolerance of an edge line and
\* strictly within that edge's span returns that edge; otherwise a pointer
\* inside the rectangle returns Center; otherwise None; so inside yields some
\* handle and None is returned only outside.
C14_HitTestPriority ==
    PointerDown =>
        LET pos == last.pos[1]
            scr == DownRect
            h == last.handle
        IN  /\ \A c \in NearCorners(pos, scr) : h = c
            /\ NearCorners(pos, scr) = {} => \A e \in NearEdges(pos, scr) : h = e
            /\ (NearCorners(pos, scr) = {} /\ NearEdges(pos, scr) = {}) =>
                  h = (IF RectContains(scr, pos) THEN "Center" ELSE NoHandle)
            /\ InsideYieldsHandle(pos, scr, h)

\* C14 amended: a pointer within the tolerance radius of one or more corners
\* returns the first of them in the order TopLeft, TopRight, BottomLeft,
\* BottomRight; otherwise a pointer within tolerance of the line of one or more
\* edges and strictly within their span returns the first of them in the order
\* Left, Right, Top, Bottom; otherwise a pointer inside the rectangle returns
\* Center; otherwise None; so inside yields some handle and None is returned
\* only outside.
C14_HitTestFirstMatch ==
    PointerDown =>
        LET pos == last.pos[1]
            scr == DownRect
            h == last.handle
        IN  /\ h = (IF NearCorners(pos, scr) # {}
                    THEN First(<<"TopLeft", "TopRight", "BottomLeft", "BottomRight">>,
                               NearCorners(pos, scr))
                    ELSE IF NearEdges(pos, scr) # {}
                    THEN First(<<"Left", "Right", "Top", "Bottom">>, NearEdges(pos, scr))
                    ELSE IF RectContains(scr, pos) THEN "Center"
                    ELSE NoHandle)
            /\ InsideYieldsHandle(pos, scr, h)

\* the pointer went down inside the rectangle, out of reach of every corner and
\* within tolerance of both the left and the top edge: Left is selected
C14_Witness ==
    /\ PointerDown
    /\ NearCorners(last.pos[1], DownRect) = {}
    /\ {"Left", "Top"} \subseteq NearEdges(last.pos[1], DownRect)
    /\ RectContains(DownRect, last.pos[1])
    /\ last.handle = "Left"

\* the pointer went down within reach of a corner and of an edge: the corner
C14_WitnessCorner ==
    /\ PointerDown
    /\ NearEdges(last.pos[1], DownRect) # {}
    /\ last.handle \in NearCorners(last.pos[1], DownRect)

\* ---- handle lifecycle ----

\* C15: over any sequence of pointer events, the selected handle is assigned
\* only at pointer-down, from one hit test against the rectangle as it is then;
\* it stays the same handle for every pointer-move frame of that drag, also
\* after the rectangle is clamped or swapped; it is None after every pointer-up,
\* and a pointer-up with no handle selected changes nothing; when pointer-down
\* selects None, the pointer-move frames leave the crop rectangle unchanged.
C15_HandleLifecycle ==
    [][/\ last'.op = "drag_start" =>
            selected_handle' =
                (IF last'.pos = None THEN selected_handle
                 ELSE hit_test(last'.pos[1],
                               ScreenCropRect(last'.display_size[1], crop_rect[1])))
       /\ last'.op = "drag" =>
            /\ selected_handle' = selected_handle
            /\ selected_handle = NoHandle => crop_rect' = crop_rect
       /\ last'.op = "drag_stop" =>
            /\ selected_handle' = NoHandle
            /\ selected_handle = NoHandle =>
                 UNCHANGED <<image, crop_rect, selected_handle, aspect_ratio_mode,
                             custom_w, custom_h, is_portrait>>
       /\ (last'.op \in {"drag_start", "drag", "drag_stop"}
             /\ selected_handle' \notin {NoHandle, selected_handle}) =>
            last'.op = "drag_start"]_vars

\* a pointer-move frame whose candidate was inverted and swapped, the handle
\* still selected
C15_Witness ==
    /\ last.op = "drag"
    /\ last.cand # None
    /\ ~Ordered(last.cand[1])
    /\ selected_handle = last.handle
    /\ selected_handle # NoHandle

\* a pointer-move frame of a drag that selected None
C15_WitnessNoHandle ==
    /\ last.op = "drag"
    /\ dragging
    /\ selected_handle = NoHandle
    /\ crop_rect = last.prev
    /\ crop_rect # Some(FullRect)

\* ---- locked drags ----

\* a drag frame of a resize handle under a locked ratio
LockedFrame == DragFrame /\ aspect_ratio_mode # "Free" /\ last.handle # "Center"

\* the dragged corner, moved by the frame's delta, lies beyond the anchor
PastAnchor ==
    LET moved == VAdd(Corner(last.prev[1], last.handle), last.delta_norm[1])
        anchor == Anchor(last.prev[1], last.handle)
    IN  CASE last.handle = "TopLeft" -> RGt(moved.x, anchor.x) /\ RGt(moved.y, anchor.y)
          [] last.handle = "TopRight" -> RLt(moved.x, anchor.x) /\ RGt(moved.y, anchor.y)
          [] last.handle = "BottomLeft" -> RGt(moved.x, anchor.x) /\ RLt(moved.y, anchor.y)
          [] last.handle = "BottomRight" -> RLt(moved.x, anchor.x) /\ RLt(moved.y, anchor.y)

\* C16: in a locked-mode corner drag frame on a rectangle within [0,1], the
\* corner diagonally opposite the dragged handle has the same coordinates after
\* the frame as before it, for every delta (also when the dragged corner is
\* carried past the anchor or the result is clamped), and is still the corner
\* opposite the handle: the rectangle never flips to the other side of it.
C16_AnchorFixed ==
    (LockedFrame /\ last.handle \in Corners /\ In01(last.prev[1])) =>
        /\ Anchor(crop_rect[1], last.handle) = Anchor(last.prev[1], last.handle)
        /\ Ordered(crop_rect[1])
        /\ Ordered(last.cand[1])

\* a locked corner frame whose delta carried the corner past the anchor
C16_Witness ==
    /\ LockedFrame /\ last.handle \in Corners /\ In01(last.prev[1])
    /\ PastAnchor
    /\ RGt(RectWidth(crop_rect[1]), Zero)

\* a locked corner frame whose result was clamped at the image bounds
C16_WitnessClamped ==
    /\ LockedFrame /\ last.handle \in Corners /\ In01(last.prev[1])
    /\ ~In01(last.cand[1])
    /\ crop_rect[1] # last.cand[1]

\* norm_aspect of the frame just handled
FrameNormAspect ==
    NormAspect(DragTargetRatio(aspect_ratio_mode, ImageSize(texture), custom_w, custom_h),
               ImageSize(texture))

\* a locked edge frame whose unclamped result stays within [0,1]
LockedEdgeFrame == LockedFrame /\ last.handle \in Edges /\ In01(last.cand[1])

\* C17: in a locked-mode edge drag frame whose unclamped result stays within
\* [0,1] and whose dragged edge does not cross the opposite edge, the dragged
\* edge moves by the delta along its axis and the other edge of that axis stays;
\* for Left/Right the new height equals newWidth / normRatio and the vertical
\* center is unchanged; for Top/Bottom the new width equals newHeight *
\* normRatio and the horizontal center is unchanged.
C17_EdgeDrivesCentered ==
    LockedEdgeFrame =>
        LET prev == last.prev[1]
            d == last.delta_norm[1]
            now == crop_rect[1]
        IN  /\ (last.handle = "Left" /\ RLe(RAdd(prev.min.x, d.x), prev.max.x)) =>
                 /\ now.min.x = RAdd(prev.min.x, d.x) /\ now.max.x = prev.max.x
                 /\ RectHeight(now) = RDiv(RectWidth(now), FrameNormAspect)
                 /\ RectCenter(now).y = RectCenter(prev).y
            /\ (last.handle = "Right" /\ RGe(RAdd(prev.max.x, d.x), prev.min.x)) =>
                 /\ now.max.x = RAdd(prev.max.x, d.x) /\ now.min.x = prev.min.x
                 /\ RectHeight(now) = RDiv(RectWidth(now), FrameNormAspect)
                 /\ RectCenter(now).y = RectCenter(prev).y
            /\ (last.handle = "Top" /\ RLe(RAdd(prev.min.y, d.y), prev.max.y)) =>
                 /\ now.min.y = RAdd(prev.min.y, d.y) /\ now.max.y = prev.max.y
                 /\ RectWidth(now) = RMul(RectHeight(now), FrameNormAspect)
                 /\ RectCenter(now).x = RectCenter(prev).x
            /\ (last.handle = "Bottom" /\ RGe(RAdd(prev.max.y, d.y), prev.min.y)) =>
                 /\ now.max.y = RAdd(prev.max.y, d.y) /\ now.min.y = prev.min.y
                 /\ RectWidth(now) = RMul(RectHeight(now), FrameNormAspect)
                 /\ RectCenter(now).x = RectCenter(prev).x

\* a locked Left drag that narrowed the rectangle and shrank its height about
\* the center
C17_Witness ==
    /\ LockedEdgeFrame
    /\ last.handle = "Left"
    /\ RGt(crop_rect[1].min.x, last.prev[1].min.x)
    /\ RGt(crop_rect[1].min.y, last.prev[1].min.y)
    /\ RLt(crop_rect[1].max.y, last.prev[1].max.y)
    /\ RGt(RectWidth(crop_rect[1]), Zero)

\* a locked Top drag that shortened the rectangle and narrowed it about the center
C17_WitnessTop ==
    /\ LockedEdgeFrame
    /\ last.handle = "Top"
    /\ RGt(crop_rect[1].min.y, last.prev[1].min.y)
    /\ RGt(crop_rect[1].min.x, last.prev[1].min.x)
    /\ RGt(RectHeight(crop_rect[1]), Zero)

\* ---- orientation ----

\* C18: the orientation toggle flips the orientation flag and, when the mode is
\* Custom, swaps the two custom integers and leaves the mode Custom, and
\* otherwise replaces the mode by its counterpart and leaves the custom integers
\* unchanged; a second toggle restores the mode, both custom integers and the
\* flag.
C18_ToggleSwaps ==
    [][last'.op = "toggle" =>
         /\ is_portrait' = ~is_portrait
         /\ aspect_ratio_mode = "Custom" =>
              /\ aspect_ratio_mode' = "Custom"
              /\ custom_w' = custom_h /\ custom_h' = custom_w
         /\ aspect_ratio_mode # "Custom" =>
              /\ aspect_ratio_mode' = counterpart(aspect_ratio_mode)
              /\ custom_w' = custom_w /\ custom_h' = custom_h
         /\ Toggled(aspect_ratio_mode', custom_w', custom_h', is_portrait')
              = <<aspect_ratio_mode, custom_w, custom_h, is_portrait>>]_vars

\* a toggle in Custom mode that swapped two different custom integers
C18_Witness ==
    /\ last.op = "toggle"
    /\ aspect_ratio_mode = "Custom"
    /\ custom_w = 3 /\ custom_h = 4
    /\ is_portrait

\* a toggle that replaced a landscape ratio by its portrait counterpart
C18_WitnessNamed ==
    /\ last.op = "toggle"
    /\ aspect_ratio_mode \in Portrait
    /\ is_portrait

\* the second of two consecutive toggles
C18_WitnessTwice ==
    /\ last.op = "toggle"
    /\ steps = 2
    /\ ~is_portrait
    /\ aspect_ratio_mode = "Free" /\ custom_w = 4 /\ custom_h = 3

\* C20: after any sequence of mode selections and orientation toggles from the
\* initial state (Free, landscape), the orientation flag agrees with the mode:
\* a landscape named ratio (3:2, 4:3, 16:9, 16:10) goes with the landscape flag
\* and a portrait named ratio (2:3, 3:4, 9:16, 10:16) with the portrait flag, so
\* the selected mode is one of the entries the selector offers.
C20_FlagAgreesWithMode ==
    /\ aspect_ratio_mode \in {"R3_2", "R4_3", "R16_9", "R16_10"} => ~is_portrait
    /\ aspect_ratio_mode \in {"R2_3", "R3_4", "R9_16", "R10_16"} => is_portrait
    /\ Offered(aspect_ratio_mode)

\* a portrait ratio picked from the selector after a toggle to portrait
C20_Witness ==
    /\ last.op = "select"
    /\ aspect_ratio_mode \in {"R2_3", "R3_4", "R9_16", "R10_16"}
    /\ is_portrait
    /\ steps = 2

\* a landscape ratio toggled to its portrait counterpart
C20_WitnessToggled ==
    /\ last.op = "toggle"
    /\ aspect_ratio_mode \in {"R2_3", "R3_4", "R9_16", "R10_16"}
    /\ steps = 2

\* ---- layout ----

\* C19: in every drag frame that reaches the solver, both components of the
\* display size used to normalize the delta and to convert between normalized
\* and screen units are strictly positive, for every loaded image and every
\* available window size.
C19_DisplaySizePositive ==
    DragFrame =>
        /\ RGt(last.display_size[1].x, Zero)
        /\ RGt(last.display_size[1].y, Zero)

====
